---- MODULE Spec2Model ----
(***************************************************************************)
(* State-machine model of the two classes of the repository:               *)
(*   Twitter       (src/Ex1_Design_Twitter.py)                             *)
(*   SkipIterator  (src/Ex2_Design_SkipIterator.py)                        *)
(* The two objects share no state.  Spec and SpecFeed drive a Twitter      *)
(* object, SpecSkip, SpecExample and SpecEndless drive a SkipIterator, and  *)
(* SpecNaive drives a Twitter object next to the naive Twitter class that  *)
(* the first file documents, with the same calls.                          *)
(***************************************************************************)
EXTENDS Integers, Sequences, FiniteSets, TLC

VARIABLES
    tweets,      \* Twitter.tweets: dict userId -> list of <<timestamp, tweetId>>
    followees,   \* Twitter.followees: dict userId -> set of followeeIds
    timestamp,   \* Twitter.timestamp
    call,        \* the last Twitter method called: <<name, arg1, arg2>>
    ret,         \* the list the last getNewsFeed returned (<<>> after other calls)
    heap,        \* the local `heap` of the last getNewsFeed at its return
    naive,       \* the naive Twitter object: its fields tweets, followees and
                 \* timestamp, and `ret`, what its last getNewsFeed returned
    source,      \* the iterable handed to SkipIterator(iterable): the list itself,
                 \* or one period of it when the iterable is endless
    endless,     \* TRUE when the iterable is itertools.cycle(source)
    pulled,      \* how many elements next(self.it) has delivered so far
    skip_map,    \* SkipIterator.skip_map: dict value -> pending skips
    next_elem,   \* SkipIterator.next_elem
    log,         \* the iterator calls that returned normally, in order:
                 \* <<"next", value returned>> and <<"skip", val>>
    reply        \* the last iterator call: <<method, argument, status, result>>

twitterVars == <<tweets, followees, timestamp, call, ret, heap>>
skipVars == <<source, endless, pulled, skip_map, next_elem, log, reply>>
vars == <<tweets, followees, timestamp, call, ret, heap, naive,
          source, endless, pulled, skip_map, next_elem, log, reply>>

(***************************************************************************)
(* Bounds of the model and constants of the program.                       *)
(***************************************************************************)
\* at most MaxPosts postTweet calls in Spec
MaxPosts == 2
\* in SpecFeed user 1 posts at most MaxOwnPosts times ...
MaxOwnPosts == 12
\* ... and every other user at most MaxOtherPosts times
MaxOtherPosts == 1
\* the feed length: the literal 10 of getNewsFeed
FeedSize == 10
\* the first tweet id of the example driver, postTweet(1, 5)
FirstTweetId == 5
\* SpecSkip wraps iterables of at most MaxLen elements ...
MaxLen == 3
\* ... and makes at most MaxCalls calls of next and skip that return
MaxCalls == 4
\* Python's None, a value apart from the integers the iterables hold
None == -99
\* SpecExample makes at most MaxExampleCalls calls of next and skip that return
MaxExampleCalls == 10
\* SpecEndless cycles through periods of at most MaxPeriod elements
MaxPeriod == 3

\* the user ids that take part in Spec
Users == {1, 2, 3}
\* the user ids that take part in SpecFeed
FeedUsers == {1, 2}
\* the tweet ids posted in Spec: every post carries the same id
TweetIds == {FirstTweetId}
\* what the wrapped iterables yield: two integers of the example, and None
Values == {5, 7, None}
\* the arguments of skip
SkipArgs == {5, 7, None}
\* the iterable of the example driver
ExampleList == <<2, 3, 5, 6, 5, 7, 5, -1, 5, 10>>
\* the arguments of skip in the example driver
ExampleArgs == {5}

(***************************************************************************)
(* Python helpers.                                                         *)
(***************************************************************************)
\* defaultdict.__getitem__: the stored value, or the default for a missing key
Get(d, k, default) == IF k \in DOMAIN d THEN d[k] ELSE default

\* the dict after d[k] = v (a missing key is inserted)
Put(d, k, v) == [x \in (DOMAIN d) \cup {k} |-> IF x = k THEN v ELSE d[x]]

\* Python's tuple order on (timestamp, tweetId) pairs
TupleLess(p, q) == p[1] < q[1] \/ (p[1] = q[1] /\ p[2] < q[2])

\* heappush that appends: the list stays in the order of the pushes
heappushAppend(h, x) == Append(h, x)

\* heapq.heappush: the heap is kept as the ascending list of its entries (the
\* only reads of the heap are heappop's minimum and the final sorted())
heappush(h, x) ==
    LET k == Cardinality({i \in 1..Len(h) : ~TupleLess(x, h[i])})
    IN  SubSeq(h, 1, k) \o <<x>> \o SubSeq(h, k + 1, Len(h))

\* heappop as a max-heap would do it: drop the largest entry
heappopLargest(h) == SubSeq(h, 1, Len(h) - 1)

\* heapq.heappop: drop the smallest entry
heappop(h) == Tail(h)

\* sorted(heap, reverse=True)
SortedReverse(h) == [i \in 1..Len(h) |-> h[Len(h) + 1 - i]]

\* the orders in which `for user in users` may visit a set
Orders(S) ==
    {o \in [1..Cardinality(S) -> S] : \A i, j \in DOMAIN o : o[i] = o[j] => i = j}

(***************************************************************************)
(* Twitter                                                                 *)
(***************************************************************************)
\* the inner loop body with the test `len(heap) >= 10`
OfferEvictsEarly(h, tweet) ==
    LET h1 == heappush(h, tweet)
    IN  IF Len(h1) >= FeedSize THEN heappop(h1) ELSE h1

\* the body of the inner loop: push, then pop when the heap exceeds 10
Offer(h, tweet) ==
    LET h1 == heappush(h, tweet)
    IN  IF Len(h1) > FeedSize THEN heappop(h1) ELSE h1

\* for tweet in self.tweets[user]
RECURSIVE OfferAll(_, _)
OfferAll(h, list) ==
    IF list = <<>> THEN h ELSE OfferAll(Offer(h, Head(list)), Tail(list))

\* for user in users (visited in the order `order`), over the tweets dict tw
RECURSIVE Scan(_, _, _)
Scan(tw, h, order) ==
    IF order = <<>> THEN h
    ELSE Scan(tw, OfferAll(h, Get(tw, Head(order), <<>>)), Tail(order))

\* the source set taken as every user that follows anybody, and the caller
SourceUsersEveryone(fo, userId) == (DOMAIN fo) \cup {userId}

\* users = self.followees[userId] | {userId}, over the followees dict fo
SourceUsers(fo, userId) == Get(fo, userId, {}) \cup {userId}

\* [tweet_id for _, tweet_id in sorted(heap, reverse=True)]
FeedIds(h) == [i \in 1..Len(h) |-> SortedReverse(h)[i][2]]

\* self.tweets after the self.tweets[user] reads of the loop over the users S
TouchTweets(tw, S) == [u \in (DOMAIN tw) \cup S |-> Get(tw, u, <<>>)]

\* postTweet that starts the user's list afresh
TweetsAfterPostReplaces(tw, ts, userId, tweetId) ==
    Put(tw, userId, <<<<ts, tweetId>>>>)

\* self.tweets after postTweet
TweetsAfterPost(tw, ts, userId, tweetId) ==
    Put(tw, userId, Append(Get(tw, userId, <<>>), <<ts, tweetId>>))

\* postTweet without `self.timestamp += 1`
TimestampAfterPostStuck(ts) == ts

\* self.timestamp after postTweet
TimestampAfterPost(ts) == ts + 1

\* follow without the `followerId != followeeId` test
FolloweesAfterFollowNoGuard(fo, followerId, followeeId) ==
    Put(fo, followerId, Get(fo, followerId, {}) \cup {followeeId})

\* follow that adds the edge in both directions
FolloweesAfterFollowMutual(fo, followerId, followeeId) ==
    IF followerId # followeeId
    THEN LET f1 == Put(fo, followerId, Get(fo, followerId, {}) \cup {followeeId})
         IN  Put(f1, followeeId, Get(f1, followeeId, {}) \cup {followerId})
    ELSE fo

\* follow that accepts only a followee that already has an entry of its own
FolloweesAfterFollowKnownOnly(fo, followerId, followeeId) ==
    IF followerId # followeeId /\ followeeId \in DOMAIN fo
    THEN Put(fo, followerId, Get(fo, followerId, {}) \cup {followeeId})
    ELSE fo

\* self.followees after follow
FolloweesAfterFollow(fo, followerId, followeeId) ==
    IF followerId # followeeId
    THEN Put(fo, followerId, Get(fo, followerId, {}) \cup {followeeId})
    ELSE fo

\* unfollow that removes the edge of the other direction
FolloweesAfterUnfollowReversed(fo, followerId, followeeId) ==
    Put(fo, followeeId, Get(fo, followeeId, {}) \ {followerId})

\* self.followees after unfollow
FolloweesAfterUnfollow(fo, followerId, followeeId) ==
    Put(fo, followerId, Get(fo, followerId, {}) \ {followeeId})

TwitterInit ==
    /\ tweets = <<>>
    /\ followees = <<>>
    /\ timestamp = 0
    /\ call = <<"init", 0, 0>>
    /\ ret = <<>>
    /\ heap = <<>>

postTweet(userId, tweetId) ==
    /\ tweets' = TweetsAfterPost(tweets, timestamp, userId, tweetId)
    /\ timestamp' = TimestampAfterPost(timestamp)
    /\ call' = <<"postTweet", userId, tweetId>>
    /\ ret' = <<>>
    /\ heap' = <<>>
    /\ UNCHANGED followees

getNewsFeed(userId) ==
    \E order \in Orders(SourceUsers(followees, userId)) :
        LET h == Scan(tweets, <<>>, order)
        IN  /\ followees' = Put(followees, userId, Get(followees, userId, {}))
            /\ tweets' = TouchTweets(tweets, SourceUsers(followees, userId))
            /\ heap' = h
            /\ ret' = FeedIds(h)
            /\ call' = <<"getNewsFeed", userId, 0>>
            /\ UNCHANGED timestamp

follow(followerId, followeeId) ==
    /\ followees' = FolloweesAfterFollow(followees, followerId, followeeId)
    /\ call' = <<"follow", followerId, followeeId>>
    /\ ret' = <<>>
    /\ heap' = <<>>
    /\ UNCHANGED <<tweets, timestamp>>

unfollow(followerId, followeeId) ==
    /\ followees' = FolloweesAfterUnfollow(followees, followerId, followeeId)
    /\ call' = <<"unfollow", followerId, followeeId>>
    /\ ret' = <<>>
    /\ heap' = <<>>
    /\ UNCHANGED <<tweets, timestamp>>

(***************************************************************************)
(* The naive Twitter class of the same file: one global list of            *)
(* <<userId, tweetId, timestamp>>, scanned newest first.                   *)
(***************************************************************************)
NaiveInit ==
    naive = [tweets |-> <<>>, followees |-> <<>>, timestamp |-> 0, ret |-> <<>>]

\* for uid, tid, ts in reversed(self.tweets), from position i down, with the
\* result res so far: append the posts of `users`, break at 10
RECURSIVE NaiveScan(_, _, _, _)
NaiveScan(tw, i, users, res) ==
    IF i = 0 THEN res
    ELSE IF tw[i][1] \in users
         THEN LET res1 == Append(res, tw[i][2])
              IN  IF Len(res1) = FeedSize THEN res1
                  ELSE NaiveScan(tw, i - 1, users, res1)
         ELSE NaiveScan(tw, i - 1, users, res)

\* what the naive getNewsFeed(userId) returns over the list tw and the dict fo
NaiveFeed(tw, fo, userId) == NaiveScan(tw, Len(tw), SourceUsers(fo, userId), <<>>)

naivePostTweet(userId, tweetId) ==
    naive' = [naive EXCEPT
                 !.tweets = Append(@, <<userId, tweetId, naive.timestamp>>),
                 !.timestamp = @ + 1,
                 !.ret = <<>>]

naiveGetNewsFeed(userId) ==
    naive' = [naive EXCEPT
                 !.followees = Put(@, userId, Get(@, userId, {})),
                 !.ret = NaiveFeed(naive.tweets, naive.followees, userId)]

naiveFollow(followerId, followeeId) ==
    naive' = [naive EXCEPT
                 !.followees = FolloweesAfterFollow(@, followerId, followeeId),
                 !.ret = <<>>]

naiveUnfollow(followerId, followeeId) ==
    naive' = [naive EXCEPT
                 !.followees = FolloweesAfterUnfollow(@, followerId, followeeId),
                 !.ret = <<>>]

(***************************************************************************)
(* SkipIterator                                                            *)
(***************************************************************************)
\* next(self.it) raises StopIteration after p elements: the list is used up,
\* which an endless iterable never is
AtEnd(src, p) == src = <<>> \/ (~endless /\ p >= Len(src))

\* the value next(self.it) returns after p elements
Elem(src, p) == src[(p % Len(src)) + 1]

\* _advance() that forgets `self.skip_map[val] -= 1`
RECURSIVE AdvanceKeepsCount(_, _, _)
AdvanceKeepsCount(src, p, sm) ==
    IF AtEnd(src, p)
    THEN [pulled |-> p, skip_map |-> sm, next_elem |-> None]
    ELSE LET val == Elem(src, p)
         IN  IF Get(sm, val, 0) > 0
             THEN AdvanceKeepsCount(src, p + 1, sm)
             ELSE [pulled |-> p + 1,
                   skip_map |-> Put(sm, val, Get(sm, val, 0)),
                   next_elem |-> val]

\* _advance(), from `pulled` elements drawn and the skip counts sm: the loop
\* draws next(self.it) until a value with no pending skip, or StopIteration
RECURSIVE Advance(_, _, _)
Advance(src, p, sm) ==
    IF AtEnd(src, p)
    THEN [pulled |-> p, skip_map |-> sm, next_elem |-> None]
    ELSE LET val == Elem(src, p)
         IN  IF Get(sm, val, 0) > 0
             THEN Advance(src, p + 1, Put(sm, val, Get(sm, val, 0) - 1))
             ELSE [pulled |-> p + 1,
                   skip_map |-> Put(sm, val, Get(sm, val, 0)),
                   next_elem |-> val]

\* hasNext()
hasNextValue(elem) == elem # None

\* skip(val) that counts a pending skip also when val is the buffered value
SkipResultAlwaysCounts(src, p, sm, elem, val) ==
    [pulled |-> p, skip_map |-> Put(sm, val, Get(sm, val, 0) + 1),
     next_elem |-> elem]

\* skip(val): the fields after the call
SkipResult(src, p, sm, elem, val) ==
    IF elem = val
    THEN Advance(src, p, sm)
    ELSE [pulled |-> p, skip_map |-> Put(sm, val, Get(sm, val, 0) + 1),
          next_elem |-> elem]

\* SkipIterator(iterable)
SkipInit(iterable) ==
    LET a == Advance(iterable, 0, <<>>)
    IN  /\ endless = FALSE
        /\ source = iterable
        /\ pulled = a.pulled
        /\ skip_map = a.skip_map
        /\ next_elem = a.next_elem
        /\ log = <<>>
        /\ reply = <<"init", None, "ok", None>>

\* SkipIterator(itertools.cycle(period))
SkipInitEndless(period) ==
    /\ endless = (period # <<>>)
    /\ LET a == Advance(period, 0, <<>>)
       IN  /\ source = period
           /\ pulled = a.pulled
           /\ skip_map = a.skip_map
           /\ next_elem = a.next_elem
           /\ log = <<>>
           /\ reply = <<"init", None, "ok", None>>

\* the iterator idle while a Twitter object is driven
SkipIdle == SkipInit(<<>>)

hasNext ==
    /\ reply' = <<"hasNext", None, "ok", IF hasNextValue(next_elem) THEN 1 ELSE 0>>
    /\ UNCHANGED <<source, endless, pulled, skip_map, next_elem, log>>

next ==
    IF ~hasNextValue(next_elem)
    THEN /\ reply' = <<"next", None, "StopIteration", None>>
         /\ UNCHANGED <<source, endless, pulled, skip_map, next_elem, log>>
    ELSE LET a == Advance(source, pulled, skip_map)
         IN  /\ pulled' = a.pulled
             /\ skip_map' = a.skip_map
             /\ next_elem' = a.next_elem
             /\ log' = Append(log, <<"next", next_elem>>)
             /\ reply' = <<"next", None, "ok", next_elem>>
             /\ UNCHANGED <<source, endless>>

skip(val) ==
    LET a == SkipResult(source, pulled, skip_map, next_elem, val)
    IN  /\ pulled' = a.pulled
        /\ skip_map' = a.skip_map
        /\ next_elem' = a.next_elem
        /\ log' = Append(log, <<"skip", val>>)
        /\ reply' = <<"skip", val, "ok", None>>
        /\ UNCHANGED <<source, endless>>

(***************************************************************************)
(* Specifications                                                          *)
(***************************************************************************)
Init == TwitterInit /\ NaiveInit /\ SkipIdle

Post ==
    /\ timestamp < MaxPosts
    /\ \E userId \in Users, tweetId \in TweetIds : postTweet(userId, tweetId)
    /\ UNCHANGED <<naive, skipVars>>

Feed == (\E userId \in Users : getNewsFeed(userId)) /\ UNCHANGED <<naive, skipVars>>

Follow ==
    /\ \E followerId \in Users, followeeId \in Users : follow(followerId, followeeId)
    /\ UNCHANGED <<naive, skipVars>>

Unfollow ==
    /\ \E followerId \in Users, followeeId \in Users : unfollow(followerId, followeeId)
    /\ UNCHANGED <<naive, skipVars>>

Next == Post \/ Feed \/ Follow \/ Unfollow

Spec == Init /\ [][Next]_vars

\* SpecFeed: long histories, so that the heap overflows; tweet ids are
\* FirstTweetId + timestamp as in the example driver
PostCap(userId) == IF userId = 1 THEN MaxOwnPosts ELSE MaxOtherPosts

FeedPost ==
    /\ \E userId \in FeedUsers :
          /\ Len(Get(tweets, userId, <<>>)) < PostCap(userId)
          /\ postTweet(userId, FirstTweetId + timestamp)
    /\ UNCHANGED <<naive, skipVars>>

FeedQuery == (\E userId \in FeedUsers : getNewsFeed(userId)) /\ UNCHANGED <<naive, skipVars>>

FeedFollow ==
    /\ \E followerId \in FeedUsers, followeeId \in FeedUsers :
          follow(followerId, followeeId)
    /\ UNCHANGED <<naive, skipVars>>

FeedUnfollow ==
    /\ \E followerId \in FeedUsers, followeeId \in FeedUsers :
          unfollow(followerId, followeeId)
    /\ UNCHANGED <<naive, skipVars>>

NextFeed == FeedPost \/ FeedQuery \/ FeedFollow \/ FeedUnfollow

SpecFeed == Init /\ [][NextFeed]_vars

\* SpecSkip: a SkipIterator over every iterable of at most MaxLen values
RECURSIVE Lists(_)
Lists(n) ==
    IF n = 0 THEN {<<>>}
    ELSE Lists(n - 1) \cup {Append(l, v) : l \in {x \in Lists(n - 1) : Len(x) = n - 1}, v \in Values}

InitSkip == TwitterInit /\ NaiveInit /\ \E iterable \in Lists(MaxLen) : SkipInit(iterable)

SkipHasNext == hasNext /\ UNCHANGED <<twitterVars, naive>>

SkipNext ==
    /\ hasNextValue(next_elem) => Len(log) < MaxCalls
    /\ next
    /\ UNCHANGED <<twitterVars, naive>>

SkipSkip ==
    /\ Len(log) < MaxCalls
    /\ \E val \in SkipArgs : skip(val)
    /\ UNCHANGED <<twitterVars, naive>>

NextSkip == SkipHasNext \/ SkipNext \/ SkipSkip

SpecSkip == InitSkip /\ [][NextSkip]_vars

\* SpecExample: a SkipIterator over the iterable of the example driver, with
\* the calls the driver makes (hasNext, next, skip(5)) in any order
InitExample == TwitterInit /\ NaiveInit /\ SkipInit(ExampleList)

ExampleHasNext == hasNext /\ UNCHANGED <<twitterVars, naive>>

ExampleNext ==
    /\ hasNextValue(next_elem) => Len(log) < MaxExampleCalls
    /\ next
    /\ UNCHANGED <<twitterVars, naive>>

ExampleSkip ==
    /\ Len(log) < MaxExampleCalls
    /\ \E val \in ExampleArgs : skip(val)
    /\ UNCHANGED <<twitterVars, naive>>

NextExample == ExampleHasNext \/ ExampleNext \/ ExampleSkip

SpecExample == InitExample /\ [][NextExample]_vars

\* SpecNaive: the calls of SpecFeed, made on the Twitter object and on the
\* naive Twitter object alike
NaivePost ==
    /\ \E userId \in FeedUsers :
          /\ Len(Get(tweets, userId, <<>>)) < PostCap(userId)
          /\ postTweet(userId, FirstTweetId + timestamp)
          /\ naivePostTweet(userId, FirstTweetId + timestamp)
    /\ UNCHANGED skipVars

NaiveQuery ==
    /\ \E userId \in FeedUsers : getNewsFeed(userId) /\ naiveGetNewsFeed(userId)
    /\ UNCHANGED skipVars

NaiveFollow ==
    /\ \E followerId \in FeedUsers, followeeId \in FeedUsers :
          follow(followerId, followeeId) /\ naiveFollow(followerId, followeeId)
    /\ UNCHANGED skipVars

NaiveUnfollow ==
    /\ \E followerId \in FeedUsers, followeeId \in FeedUsers :
          unfollow(followerId, followeeId) /\ naiveUnfollow(followerId, followeeId)
    /\ UNCHANGED skipVars

NextNaive == NaivePost \/ NaiveQuery \/ NaiveFollow \/ NaiveUnfollow

SpecNaive == Init /\ [][NextNaive]_vars

\* SpecEndless: a SkipIterator over itertools.cycle(period) and over the plain
\* list `period`, for every period of at most MaxPeriod values, with the
\* calls of SpecSkip
InitEndless ==
    /\ TwitterInit
    /\ NaiveInit
    /\ \E period \in Lists(MaxPeriod) : SkipInitEndless(period) \/ SkipInit(period)

SpecEndless == InitEndless /\ [][NextSkip]_vars

(***************************************************************************)
(* Vocabulary of the properties of Twitter                                 *)
(***************************************************************************)
Min(a, b) == IF a < b THEN a ELSE b
Range(list) == {list[i] : i \in DOMAIN list}

\* the stored history and followee set of a user, absent keys read as empty
History(u) == Get(tweets, u, <<>>)
Followees(u) == Get(followees, u, {})

\* a post is named by its author and its position in the author's history
PostsBy(S) == UNION {{<<u, i>> : i \in 1..Len(History(u))} : u \in S}
SeqNo(p) == History(p[1])[p[2]][1]
ItemId(p) == History(p[1])[p[2]][2]
Newer(S, p) == {q \in S : SeqNo(q) > SeqNo(p)}

\* the source set of the last getNewsFeed call
Queried == call[1] = "getNewsFeed"
QuerySources == Followees(call[2]) \cup {call[2]}

(***************************************************************************)
(* C1: getNewsFeed(u) returns exactly the item ids of the min(10, n) posts *)
(* with the highest sequence numbers among the n posts of u and u's        *)
(* followees at the time of the query, in descending sequence-number       *)
(* order: the i-th item is the item id of the post that has exactly i - 1  *)
(* newer posts among the sources (whenever the followee edge was added).   *)
(***************************************************************************)
C1_FeedIsNewestTen ==
    Queried =>
        LET S == PostsBy(QuerySources)
        IN  /\ Len(ret) = Min(FeedSize, Cardinality(S))
            /\ \A i \in 1..Len(ret) :
                  \E p \in S : /\ Cardinality(Newer(S, p)) = i - 1
                               /\ ret[i] = ItemId(p)

\* user 1 follows user 2, the sources hold more than 10 posts, and the feed of
\* 10 holds a post of user 2 next to posts of user 1
C1_Witness ==
    /\ call = <<"getNewsFeed", 1, 0>>
    /\ 2 \in Followees(1)
    /\ Cardinality(PostsBy(QuerySources)) > FeedSize
    /\ Len(ret) = FeedSize
    /\ History(2) # <<>>
    /\ \E i \in 2..FeedSize - 1 : ret[i] = ItemId(<<2, 1>>)

(***************************************************************************)
(* C2: getNewsFeed(u) returns at most 10 items, the posts behind           *)
(* consecutive items have strictly decreasing sequence numbers, and every  *)
(* such post is in the history of a user of {u} \cup followees(u) and in   *)
(* the history of no user outside it.                                      *)
(***************************************************************************)
C2_FeedBoundedOrderedFromSources ==
    Queried =>
        LET sr == SortedReverse(heap)
        IN  /\ Len(ret) <= FeedSize
            /\ Len(ret) = Len(sr)
            /\ \A i \in 1..Len(sr) :
                  /\ ret[i] = sr[i][2]
                  /\ i < Len(sr) => sr[i][1] > sr[i + 1][1]
                  /\ \E v \in QuerySources : sr[i] \in Range(History(v))
                  /\ \A v \in Users \ QuerySources : sr[i] \notin Range(History(v))

\* user 2 has posted and is not followed by user 1, whose feed is full
C2_Witness ==
    /\ call = <<"getNewsFeed", 1, 0>>
    /\ 2 \notin Followees(1)
    /\ History(2) # <<>>
    /\ Len(History(1)) > FeedSize
    /\ Len(ret) = FeedSize

(***************************************************************************)
(* C3: once unfollow(u, v) with v # u has returned, v is not a followee of *)
(* u; v becomes a followee of u again only by a call follow(u, v); and     *)
(* every getNewsFeed(u) issued while v is not a followee of u holds no     *)
(* post of v's history, whatever v has posted, its items still being in    *)
(* strictly descending sequence-number order.                              *)
(***************************************************************************)
C3_Excluded ==
    /\ \A u, v \in Users : call = <<"unfollow", u, v>> => v \notin Followees(u)
    /\ Queried =>
          LET sr == SortedReverse(heap)
          IN  \A i \in 1..Len(sr) :
                 /\ ret[i] = sr[i][2]
                 /\ i < Len(sr) => sr[i][1] > sr[i + 1][1]
                 /\ \A v \in Users \ QuerySources : sr[i] \notin Range(History(v))

C3_OnlyFollowAdds ==
    \A u, v \in Users :
        (v \notin Followees(u) /\ v \in Get(followees', u, {}))
            => call' = <<"follow", u, v>>

C3_UnfollowExcludes == [](C3_Excluded) /\ [][C3_OnlyFollowAdds]_vars

\* user 2 asks for the feed while not following user 1, who has posted more
\* than 10 times; the feed is user 2's own post alone
C3_Witness ==
    /\ call = <<"getNewsFeed", 2, 0>>
    /\ 2 \in DOMAIN followees
    /\ 1 \notin Followees(2)
    /\ Len(History(1)) > FeedSize
    /\ Len(History(2)) = 1
    /\ ret = <<ItemId(<<2, 1>>)>>

(***************************************************************************)
(* C4: follow(u, u) changes neither the follow graph nor a history nor the *)
(* counter, so u is never in followees(u); and when getNewsFeed(u) is      *)
(* called after u has posted, u's most recent post is in the feed whenever *)
(* fewer than 10 posts of u's followees are newer than it (at the position *)
(* that follows those newer posts).                                        *)
(***************************************************************************)
LastPost(u) == <<u, Len(History(u))>>
NewerFolloweePosts(u) == Newer(PostsBy(Followees(u)), LastPost(u))

C4_SelfPosts ==
    /\ \A u \in Users : u \notin Followees(u)
    /\ (Queried /\ History(call[2]) # <<>>) =>
          LET u == call[2]
              k == Cardinality(NewerFolloweePosts(u))
          IN  k < FeedSize =>
                 /\ History(u)[Len(History(u))] \in Range(heap)
                 /\ Len(ret) > k
                 /\ ret[k + 1] = ItemId(LastPost(u))

C4_SelfFollowStep ==
    \A u \in Users :
        call' = <<"follow", u, u>> => UNCHANGED <<tweets, followees, timestamp>>

C4_SelfFollowNoOp == [](C4_SelfPosts) /\ [][C4_SelfFollowStep]_vars

\* user 2 follows user 1, exactly 9 posts of user 1 are newer than user 2's
\* last post, which is the last item of the feed
C4_Witness ==
    /\ call = <<"getNewsFeed", 2, 0>>
    /\ 1 \in Followees(2)
    /\ History(2) # <<>>
    /\ Cardinality(NewerFolloweePosts(2)) = FeedSize - 1
    /\ Len(ret) = FeedSize
    /\ ret[FeedSize] = ItemId(LastPost(2))

(***************************************************************************)
(* C5: follow(a, b) changes the followee set of a alone, to                *)
(* followees(a) \cup {b} when a # b; follow(a, b) on an existing edge      *)
(* leaves the store as it is; unfollow(a, b) on an absent edge leaves      *)
(* every history, every followee set and the counter as they are; and      *)
(* unfollow(a, b) after follow(a, b) gives back the follow graph when the  *)
(* edge was absent.  (Followee sets are read with absent keys as empty.)   *)
(***************************************************************************)
Graph(fo) == [u \in Users |-> Get(fo, u, {})]

C5_RoundTrip ==
    \A a, b \in Users :
        b \notin Followees(a) =>
            Graph(FolloweesAfterUnfollow(FolloweesAfterFollow(followees, a, b), a, b))
                = Graph(followees)

C5_Step ==
    \A a, b \in Users :
        /\ call' = <<"follow", a, b>> =>
              /\ UNCHANGED <<tweets, timestamp>>
              /\ \A x \in Users \ {a} :
                    /\ Get(followees', x, {}) = Followees(x)
                    /\ x \in DOMAIN followees' <=> x \in DOMAIN followees
              /\ a # b => Get(followees', a, {}) = Followees(a) \cup {b}
              /\ b \in Followees(a) => followees' = followees
        /\ call' = <<"unfollow", a, b>> =>
              /\ UNCHANGED <<tweets, timestamp>>
              /\ \A x \in Users \ {a} : Get(followees', x, {}) = Followees(x)
              /\ Get(followees', a, {}) = Followees(a) \ {b}
              /\ b \notin Followees(a) => Graph(followees') = Graph(followees)

C5_EdgesDirectedIdempotent == [](C5_RoundTrip) /\ [][C5_Step]_vars

\* follow(1, 2) was called on a graph where 2 follows 1 and 3, and 1 follows 2
\* but not 3: the edge 1 -> 2 is there and the edge 1 -> 3 is not
C5_Witness ==
    /\ call = <<"follow", 1, 2>>
    /\ Followees(1) = {2}
    /\ Followees(2) = {1, 3}
    /\ 3 \notin DOMAIN followees

(***************************************************************************)
(* C6: sequence numbers are unique across all histories and less than the  *)
(* counter, every history is in strictly increasing sequence-number order, *)
(* and the post a postTweet call has just stored is the tail of its        *)
(* author's history with a number greater than that of every other post.   *)
(***************************************************************************)
C6_SequenceNumbers ==
    LET All == PostsBy(Users)
    IN  /\ \A p, q \in All : p # q => SeqNo(p) # SeqNo(q)
        /\ \A p \in All : SeqNo(p) >= 0 /\ SeqNo(p) < timestamp
        /\ \A u \in Users : \A i \in 1..Len(History(u)) - 1 :
              History(u)[i][1] < History(u)[i + 1][1]
        /\ call[1] = "postTweet" =>
              /\ History(call[2]) # <<>>
              /\ ItemId(LastPost(call[2])) = call[3]
              /\ SeqNo(LastPost(call[2])) = timestamp - 1
              /\ \A q \in All \ {LastPost(call[2])} :
                    SeqNo(q) < SeqNo(LastPost(call[2]))

\* user 1 has just posted, and the post of user 2 lies between posts of user 1
C6_Witness ==
    /\ call[1] = "postTweet"
    /\ call[2] = 1
    /\ Len(History(1)) >= 3
    /\ Len(History(2)) = 1
    /\ SeqNo(<<1, 1>>) < SeqNo(<<2, 1>>)
    /\ SeqNo(<<2, 1>>) < SeqNo(<<1, 2>>)

(***************************************************************************)
(* C7: the scenario of the example driver.  With postTweet(1,5) alone in   *)
(* the store getNewsFeed(1) = [5]; after follow(1,2) and postTweet(2,6) it *)
(* is [6,5]; after unfollow(1,2) it is [5]; after user 1 has posted        *)
(* 7..17 as well it is [17,16,15,14,13,12,11,10,9,8].                      *)
(***************************************************************************)
\* the history of user 1 after its first n posts of the driver
DriverHistory(n) == [i \in 1..n |-> IF i = 1 THEN <<0, 5>> ELSE <<i, i + 5>>]

StoreIs(h1, h2, f1) ==
    /\ History(1) = h1
    /\ History(2) = h2
    /\ Followees(1) = f1
    /\ Followees(2) = {}

C7_Scenario ==
    call = <<"getNewsFeed", 1, 0>> =>
        /\ StoreIs(DriverHistory(1), <<>>, {}) => ret = <<5>>
        /\ StoreIs(DriverHistory(1), <<<<1, 6>>>>, {2}) => ret = <<6, 5>>
        /\ StoreIs(DriverHistory(1), <<<<1, 6>>>>, {}) => ret = <<5>>
        /\ StoreIs(DriverHistory(12), <<<<1, 6>>>>, {}) =>
              ret = <<17, 16, 15, 14, 13, 12, 11, 10, 9, 8>>

\* the last getNewsFeed(1) of the driver has returned
C7_Witness ==
    /\ call = <<"getNewsFeed", 1, 0>>
    /\ StoreIs(DriverHistory(12), <<<<1, 6>>>>, {})
    /\ Len(ret) = FeedSize

(***************************************************************************)
(* C8: no operation fails on a user without any entry in the store (never  *)
(* posted, followed, been followed or asked): every method is enabled      *)
(* with such a user as an argument; its getNewsFeed returns the empty      *)
(* list and changes no history, followee set or counter; unfollow by or of *)
(* such a user changes no followee set; follow of or by such a user adds   *)
(* the edge; and every method computes the same from the store as from the *)
(* store with an empty history and an empty followee set entered for the   *)
(* user.                                                                   *)
(***************************************************************************)
Unseen(u) ==
    /\ u \notin DOMAIN tweets
    /\ u \notin DOMAIN followees
    /\ \A x \in Users : u \notin Followees(x)

Histories(tw) == [u \in Users |-> Get(tw, u, <<>>)]

C8_NeverFails ==
    \A u \in Users :
        Unseen(u) =>
            /\ ENABLED postTweet(u, FirstTweetId)
            /\ ENABLED getNewsFeed(u)
            /\ \A x \in Users :
                  /\ ENABLED follow(u, x)
                  /\ ENABLED follow(x, u)
                  /\ ENABLED unfollow(u, x)
                  /\ ENABLED unfollow(x, u)

C8_LikeEmpty ==
    \A u \in Users :
        Unseen(u) =>
            LET tw2 == Put(tweets, u, <<>>)
                fo2 == Put(followees, u, {})
            IN  /\ \A o \in Orders(SourceUsers(followees, u)) :
                      FeedIds(Scan(tweets, <<>>, o)) = <<>>
                /\ \A x \in Users :
                      /\ SourceUsers(fo2, x) = SourceUsers(followees, x)
                      /\ \A o \in Orders(SourceUsers(followees, x)) :
                            Scan(tw2, <<>>, o) = Scan(tweets, <<>>, o)
                      /\ Histories(TweetsAfterPost(tw2, timestamp, x, FirstTweetId))
                            = Histories(TweetsAfterPost(tweets, timestamp, x, FirstTweetId))
                /\ \A a, b \in Users :
                      /\ Graph(FolloweesAfterFollow(fo2, a, b))
                            = Graph(FolloweesAfterFollow(followees, a, b))
                      /\ Graph(FolloweesAfterUnfollow(fo2, a, b))
                            = Graph(FolloweesAfterUnfollow(followees, a, b))

C8_Step ==
    \A u \in Users :
        Unseen(u) =>
            /\ call' = <<"getNewsFeed", u, 0>> =>
                  /\ ret' = <<>>
                  /\ Graph(followees') = Graph(followees)
                  /\ Histories(tweets') = Histories(tweets)
                  /\ timestamp' = timestamp
            /\ \A x \in Users :
                  /\ (call' = <<"unfollow", u, x>> \/ call' = <<"unfollow", x, u>>) =>
                        /\ Graph(followees') = Graph(followees)
                        /\ UNCHANGED <<tweets, timestamp>>
                  /\ (call' = <<"follow", x, u>> /\ x # u) =>
                        Get(followees', x, {}) = Followees(x) \cup {u}
                  /\ (call' = <<"follow", u, x>> /\ x # u) =>
                        Get(followees', u, {}) = {x}

C8_UnknownUsers == [](C8_NeverFails /\ C8_LikeEmpty) /\ [][C8_Step]_vars

\* follow(1, 3) has added the edge to user 3, who has no entry of its own
C8_Witness ==
    /\ call = <<"follow", 1, 3>>
    /\ 3 \notin DOMAIN tweets
    /\ 3 \notin DOMAIN followees
    /\ Followees(1) = {3}
    /\ \A x \in Users \ {1} : 3 \notin Followees(x)

(***************************************************************************)
(* Vocabulary of the properties of SkipIterator                            *)
(***************************************************************************)
Least(S) == CHOOSE i \in S : \A j \in S : i <= j

\* The reading of the calls by occurrences: `gone` are the positions of the
\* iterable removed by skip calls, `done` the positions returned by next calls
\* and `vals` the values returned.  skip(v) removes the earliest position that
\* holds v and is neither returned nor removed, or nothing when there is none;
\* next() returns the earliest position neither returned nor removed.
RefStep(st, ev) ==
    LET free == (1..Len(source)) \ (st.gone \cup st.done)
        mine == {i \in free : source[i] = ev[2]}
    IN  IF ev[1] = "skip"
        THEN IF mine = {} THEN st
             ELSE [st EXCEPT !.gone = @ \cup {Least(mine)}]
        ELSE IF free = {} THEN st
             ELSE [st EXCEPT !.done = @ \cup {Least(free)},
                             !.vals = Append(@, source[Least(free)])]

RECURSIVE RefRun(_, _)
RefRun(st, events) ==
    IF events = <<>> THEN st ELSE RefRun(RefStep(st, Head(events)), Tail(events))

Ref == RefRun([gone |-> {}, done |-> {}, vals |-> <<>>], log)

\* the values the next() calls returned, in order
RECURSIVE Returned(_)
Returned(events) ==
    IF events = <<>> THEN <<>>
    ELSE IF Head(events)[1] = "next"
         THEN <<Head(events)[2]>> \o Returned(Tail(events))
         ELSE Returned(Tail(events))

(***************************************************************************)
(* C9: after every interleaving of next() and skip(v) calls the values     *)
(* the next() calls returned are the iterable in its order without the     *)
(* occurrences the skip calls removed, each skip(v) removing the earliest  *)
(* occurrence of v neither returned nor removed before (none when there is *)
(* none); the positions drawn so far are the returned and removed ones and *)
(* the buffered one, the pending count of a value is the number of skips   *)
(* that found no occurrence yet or whose occurrence is still to be drawn,  *)
(* and no pending count is negative.                                       *)
(***************************************************************************)
C9_SkipRemovesOneOccurrence ==
    LET drawn == 1..pulled
        held == IF pulled > 0 /\ next_elem = source[pulled] /\ pulled \notin Ref.gone
                THEN {pulled} ELSE {}
    IN  /\ Returned(log) = Ref.vals
        /\ \A v \in DOMAIN skip_map : skip_map[v] >= 0
        /\ Ref.done \subseteq drawn
        /\ (drawn \ held) \subseteq (Ref.done \cup Ref.gone)
        /\ \A i \in Ref.gone \ drawn : Get(skip_map, source[i], 0) > 0

\* over <<7, 5, 5>>: skip(5) while 7 is buffered, next() returns 7 and draws
\* past the first 5, skip(5) on the buffered second 5 exhausts the iterator
C9_Witness ==
    /\ source = <<7, 5, 5>>
    /\ log = <<<<"skip", 5>>, <<"next", 7>>, <<"skip", 5>>>>
    /\ Ref.gone = {2, 3}
    /\ Ref.done = {1}
    /\ pulled = 3
    /\ next_elem = None

(***************************************************************************)
(* C10 as stated: after skip(v) on the buffered value v the buffered       *)
(* value, which the subsequent next() returns, is not v.                   *)
(***************************************************************************)
SkipOnBuffered(v) ==
    /\ v # None
    /\ next_elem = v
    /\ log' = Append(log, <<"skip", v>>)

C10_NextNeverReturnsSkipped ==
    [][\A v \in SkipArgs : SkipOnBuffered(v) => next_elem' # v]_vars

(***************************************************************************)
(* C10 as amended: skip(v) on the buffered value v advances past that      *)
(* occurrence, which no next() returns: the iterator is then exhausted     *)
(* with everything drawn, or buffers an element drawn after it; the        *)
(* subsequent next() returns the buffered element; and the buffered        *)
(* element is v again exactly when the element drawn is a later occurrence *)
(* of v, as when the element that follows the skipped one is v too.        *)
(***************************************************************************)
C10_Step ==
    /\ \A v \in SkipArgs :
          SkipOnBuffered(v) =>
              /\ pulled \in Ref'.gone
              /\ \/ next_elem' = None /\ pulled' = Len(source)
                 \/ pulled' > pulled /\ next_elem' = source[pulled']
              /\ (pulled < Len(source) /\ source[pulled + 1] = v) =>
                    (next_elem' = v /\ pulled' = pulled + 1)
              /\ (next_elem' = v) => source[pulled'] = v
    /\ \A x \in Values :
          log' = Append(log, <<"next", x>>) => x = next_elem

C10_SkipBufferedAdvances == [][C10_Step]_vars

\* skip(5) was called on a buffered 5 that another 5 followed: the second 5 is
\* buffered now
C10_Witness ==
    /\ log = <<<<"skip", 5>>>>
    /\ pulled = 2
    /\ source[1] = 5
    /\ source[2] = 5
    /\ next_elem = 5

(***************************************************************************)
(* C11: next() called while the iterator is exhausted (hasNext() false)    *)
(* raises StopIteration, every time, and changes no field of the iterator  *)
(* nor draws from the iterable; and once the iterator is exhausted no call *)
(* of next, skip or hasNext makes it ready again.                          *)
(***************************************************************************)
C11_Step ==
    /\ (next_elem = None /\ reply'[1] = "next") =>
          /\ reply'[3] = "StopIteration"
          /\ UNCHANGED <<source, pulled, skip_map, next_elem, log>>
    /\ next_elem = None => next_elem' = None

C11_ExhaustedForGood == [][C11_Step]_vars

(***************************************************************************)
(* C12: hasNext() answers true exactly when a value is buffered and        *)
(* changes no field of the iterator; and whatever values the iterable      *)
(* yields, when hasNext() is false every element of the iterable has been  *)
(* drawn and has been returned by a next() or removed by a skip.           *)
(***************************************************************************)
C12_FalseOnlyAtEnd ==
    /\ reply[1] = "hasNext" => (reply[4] = 1 <=> next_elem # None)
    /\ next_elem = None =>
          /\ pulled = Len(source)
          /\ (1..Len(source)) \subseteq (Ref.done \cup Ref.gone)

C12_HasNextStep ==
    reply'[1] = "hasNext" => UNCHANGED <<source, pulled, skip_map, next_elem, log>>

C12_HasNextTruthful == [](C12_FalseOnlyAtEnd) /\ [][C12_HasNextStep]_vars

(***************************************************************************)
(* C13: the scenario of the example driver.  Over                          *)
(* [2,3,5,6,5,7,5,-1,5,10] hasNext() is true at first; as long as the      *)
(* calls follow next, skip(5), next, next, next, skip(5), skip(5), next,   *)
(* next, next the values returned are 2,3,6,5,7,-1,10 in this order; and   *)
(* after the last call three occurrences of 5 (the 3rd, 7th and 9th        *)
(* element) are suppressed, nothing is left and hasNext() is false.        *)
(***************************************************************************)
ExampleCalls ==
    <<"next", "skip", "next", "next", "next", "skip", "skip", "next", "next", "next">>
ExampleOutput == <<2, 3, 6, 5, 7, -1, 10>>

Calls(events) == [i \in DOMAIN events |-> events[i][1]]

C13_Scenario ==
    /\ (log = <<>> /\ reply[1] = "hasNext") => reply[4] = 1
    /\ (Len(log) <= Len(ExampleCalls) /\ Calls(log) = SubSeq(ExampleCalls, 1, Len(log))) =>
          /\ Len(Returned(log)) <= Len(ExampleOutput)
          /\ Returned(log) = SubSeq(ExampleOutput, 1, Len(Returned(log)))
    /\ Calls(log) = ExampleCalls =>
          /\ Returned(log) = ExampleOutput
          /\ Ref.gone = {3, 7, 9}
          /\ pulled = Len(source)
          /\ next_elem = None
          /\ reply[1] = "hasNext" => reply[4] = 0

\* the driver's last hasNext() has answered false
C13_Witness ==
    /\ source = ExampleList
    /\ Calls(log) = ExampleCalls
    /\ reply = <<"hasNext", None, "ok", 0>>

(***************************************************************************)
(* C14: the elements are drawn once each and in order (the number drawn    *)
(* never decreases and never exceeds the length); in every state the       *)
(* number drawn is the number returned by next() plus the number removed   *)
(* by skips (pending or on the buffered element) plus 1 when a value is    *)
(* buffered (hasNext() true); and construction draws exactly the first     *)
(* element, when there is one.                                             *)
(***************************************************************************)
C14_Accounting ==
    /\ pulled <= Len(source)
    /\ pulled = Len(Returned(log))
                + Cardinality(Ref.gone \cap (1..pulled))
                + (IF hasNextValue(next_elem) THEN 1 ELSE 0)
    /\ reply[1] = "init" =>
          /\ pulled = Min(1, Len(source))
          /\ source # <<>> => next_elem = source[1]

C14_DrawnStep == pulled' >= pulled

C14_PullsOnceNoLookahead == [](C14_Accounting) /\ [][C14_DrawnStep]_vars

(***************************************************************************)
(* C19: whenever a value v is buffered (the iterator is ready) the pending *)
(* skip count of v is 0; a skip(v) of a value v that has just returned     *)
(* with a pending count of v leaves a buffered value other than v.         *)
(***************************************************************************)
(* C15: after every common sequence of postTweet/follow/unfollow calls     *)
(* applied to the heap implementation and to the naive implementation of   *)
(* the same file, getNewsFeed returns the same list in both, for every     *)
(* user: for the query just made, and for the query every user could make  *)
(* next, whatever order the heap implementation visits the users in.       *)
(***************************************************************************)
C15_SameFeed ==
    /\ Queried => ret = naive.ret
    /\ \A u \in FeedUsers :
          \A order \in Orders(SourceUsers(followees, u)) :
              FeedIds(Scan(tweets, <<>>, order))
                  = NaiveFeed(naive.tweets, naive.followees, u)

\* user 1 follows user 2, both have posted, the sources hold more than 10
\* posts and both implementations have answered with 10 items
C15_Witness ==
    /\ call = <<"getNewsFeed", 1, 0>>
    /\ 2 \in Followees(1)
    /\ History(2) # <<>>
    /\ Len(naive.tweets) > FeedSize
    /\ Len(ret) = FeedSize
    /\ Len(naive.ret) = FeedSize

(***************************************************************************)
(* C16: getNewsFeed is deterministic given the call sequence: for every    *)
(* user, every order of visiting the source users yields the same list;    *)
(* the list a query has returned is also what offering the same posts in   *)
(* another order yields (a visiting order as it is, reversed post by post, *)
(* rotated, or with two neighbouring posts swapped); and after each        *)
(* offer-and-evict step of these runs the heap holds at most 10 entries.   *)
(***************************************************************************)
\* the posts in the order the loops offer them when the users are visited in
\* the order `order`
RECURSIVE Offered(_, _)
Offered(tw, order) ==
    IF order = <<>> THEN <<>>
    ELSE Get(tw, Head(order), <<>>) \o Offered(tw, Tail(order))

Reversed(list) == [i \in 1..Len(list) |-> list[Len(list) + 1 - i]]
Rotated(list, k) == SubSeq(list, k + 1, Len(list)) \o SubSeq(list, 1, k)
Swapped(list, k) ==
    [i \in 1..Len(list) |-> IF i = k THEN list[k + 1]
                            ELSE IF i = k + 1 THEN list[k] ELSE list[i]]

\* the heap after the posts of `list` are offered to h one by one, and the
\* largest size the heap had after an offer-and-evict step
RECURSIVE OfferRun(_, _, _)
OfferRun(h, peak, list) ==
    IF list = <<>> THEN [heap |-> h, peak |-> peak]
    ELSE LET h1 == Offer(h, Head(list))
         IN  OfferRun(h1, IF Len(h1) > peak THEN Len(h1) ELSE peak, Tail(list))

\* offering orders of the same posts
Reorderings(list) ==
    {list, Reversed(list)}
        \cup {Rotated(list, k) : k \in 1..Len(list)}
        \cup {Swapped(list, k) : k \in 1..Len(list) - 1}

\* the runs of the loops of getNewsFeed(u), one for every visiting order of
\* the source users and every reordering of what that order offers
Runs(u) ==
    {OfferRun(<<>>, 0, list) :
        list \in UNION {Reorderings(Offered(tweets, order)) :
                           order \in Orders(SourceUsers(followees, u))}}

C16_OrderIndependent ==
    /\ \A u \in FeedUsers :
          Cardinality({FeedIds(Scan(tweets, <<>>, order)) :
                          order \in Orders(SourceUsers(followees, u))}) = 1
    /\ Queried =>
          /\ Len(heap) <= FeedSize
          /\ \A run \in Runs(call[2]) :
                /\ run.peak <= FeedSize
                /\ FeedIds(run.heap) = ret

\* user 1 follows user 2, the two visiting orders offer more than 10 posts,
\* and the query has answered with 10 items
C16_Witness ==
    /\ call = <<"getNewsFeed", 1, 0>>
    /\ 2 \in Followees(1)
    /\ History(2) # <<>>
    /\ Len(History(1)) > FeedSize
    /\ Len(heap) = FeedSize
    /\ Cardinality(Orders(SourceUsers(followees, 1))) = 2

(***************************************************************************)
(* C17: posts are immutable and never deleted, and each operation changes  *)
(* only what it owns: postTweet(u, i) appends exactly one post to u's      *)
(* history, adds 1 to the counter and leaves every other history and the   *)
(* follow graph unchanged; follow and unfollow change at most the          *)
(* follower's followee set and leave the histories and the counter         *)
(* unchanged; getNewsFeed leaves the counter, every history and every      *)
(* followee set unchanged (up to materialising empty entries), so that the *)
(* same query, made again at once, returns the list it has just returned.  *)
(***************************************************************************)
IsPrefix(a, b) == Len(a) <= Len(b) /\ a = SubSeq(b, 1, Len(a))

C17_Step ==
    /\ \A u \in Users : IsPrefix(History(u), Get(tweets', u, <<>>))
    /\ call'[1] = "postTweet" =>
          LET u == call'[2]
          IN  /\ Get(tweets', u, <<>>) = Append(History(u), <<timestamp, call'[3]>>)
              /\ \A v \in Users \ {u} : Get(tweets', v, <<>>) = History(v)
              /\ timestamp' = timestamp + 1
              /\ followees' = followees
    /\ call'[1] \in {"follow", "unfollow"} =>
          /\ \A v \in Users \ {call'[2]} : Get(followees', v, {}) = Followees(v)
          /\ DOMAIN followees' \subseteq (DOMAIN followees) \cup {call'[2]}
          /\ tweets' = tweets
          /\ timestamp' = timestamp
    /\ call'[1] = "getNewsFeed" =>
          /\ timestamp' = timestamp
          /\ Histories(tweets') = Histories(tweets)
          /\ Graph(followees') = Graph(followees)
          /\ \A u \in DOMAIN tweets' : u \in DOMAIN tweets \/ tweets'[u] = <<>>
          /\ \A u \in DOMAIN followees' : u \in DOMAIN followees \/ followees'[u] = {}
          /\ (call[1] = "getNewsFeed" /\ call[2] = call'[2]) => ret' = ret

\* in the state a query leaves behind, the same query returns the same list
C17_Repeatable ==
    Queried =>
        \A order \in Orders(SourceUsers(followees, call[2])) :
            FeedIds(Scan(tweets, <<>>, order)) = ret

C17_OwnEffectsOnly == [](C17_Repeatable) /\ [][C17_Step]_vars

\* user 1 has posted twice and follows user 2, who never posted: the query of
\* user 1 has materialised the empty history of user 2 and nothing else
C17_Witness ==
    /\ call = <<"getNewsFeed", 1, 0>>
    /\ Len(History(1)) = 2
    /\ Followees(1) = {2}
    /\ 2 \in DOMAIN tweets
    /\ tweets[2] = <<>>
    /\ 2 \notin DOMAIN followees
    /\ timestamp = 2
    /\ Len(ret) = 2

(***************************************************************************)
(* C18: every cursor operation terminates, also over an endless iterable:  *)
(* one run of the advancement procedure pulls at most 1 + (the sum of the  *)
(* pending-skip counts at its start) elements, because every pulled        *)
(* element either decrements a positive pending count or becomes the       *)
(* buffered value and stops the loop.  The constructor pulls at most one   *)
(* element, and an operation that does not advance pulls none.             *)
(***************************************************************************)
RECURSIVE Total(_)
Total(sm) ==
    IF DOMAIN sm = {} THEN 0
    ELSE LET k == CHOOSE x \in DOMAIN sm : TRUE
         IN  sm[k] + Total([x \in (DOMAIN sm) \ {k} |-> sm[x]])

\* a run of the advancement procedure started in the current state
C18_RunBounded ==
    LET a == Advance(source, pulled, skip_map)
        drawn == a.pulled - pulled
        spent == Total(skip_map) - Total(a.skip_map)
    IN  /\ reply[1] = "init" => pulled <= 1
        /\ \A v \in DOMAIN skip_map : skip_map[v] >= 0
        /\ drawn >= 0
        /\ drawn <= 1 + Total(skip_map)
        /\ spent \in {drawn - 1, drawn}
        /\ spent = drawn - 1 => a.next_elem = Elem(source, a.pulled - 1)
        /\ spent = drawn => (AtEnd(source, a.pulled) /\ a.next_elem = None)
        /\ endless => spent = drawn - 1

\* what a call draws
C18_Step ==
    LET drawn == pulled' - pulled
        spent == Total(skip_map) - Total(skip_map')
    IN  /\ drawn >= 0
        /\ drawn <= 1 + Total(skip_map)
        /\ drawn > 0 => spent \in {drawn - 1, drawn}
        /\ (drawn > 0 /\ endless) => spent = drawn - 1
        /\ drawn = 0 => spent \in {0, -1}

C18_AdvanceBounded == [](C18_RunBounded) /\ [][C18_Step]_vars

\* over the endless iterable 5, 7, 7, 5, 7, 7, ... two skips of 7 are pending
\* when skip(5) meets the buffered 5: the run pulls 7, 7 and 5, that is
\* 1 + 2 elements, and no skip is left pending
C18_Witness ==
    /\ endless
    /\ source = <<5, 7, 7>>
    /\ log = <<<<"skip", 7>>, <<"skip", 7>>, <<"skip", 5>>>>
    /\ pulled = 4
    /\ next_elem = 5
    /\ Total(skip_map) = 0

(***************************************************************************)
C19_NoPendingSkipOfBuffered ==
    /\ next_elem # None => Get(skip_map, next_elem, 0) = 0
    /\ (reply[1] = "skip" /\ reply[2] # None /\ Get(skip_map, reply[2], 0) > 0) =>
          next_elem # reply[2]

\* over <<5, 7, 5>>: skip(5) on the buffered 5, then skip(5) again while 7 is
\* buffered: one skip of 5 is pending and 7 is buffered with count 0
C19_Witness ==
    /\ source = <<5, 7, 5>>
    /\ log = <<<<"skip", 5>>, <<"skip", 5>>>>
    /\ next_elem = 7
    /\ Get(skip_map, 5, 0) = 1
    /\ Get(skip_map, 7, 0) = 0

====
